---- MODULE Spec2Model ----
(***************************************************************************)
(* Model of pkg_swift_llvm.py: the link-line classifier (get_libs), the    *)
(* static and shared library builders and the packaging pipeline (main).   *)
(* Strings are modelled as sequences of one-character strings so that      *)
(* endswith / startswith / stem / slicing are computed, not assumed.       *)
(***************************************************************************)
EXTENDS Integers, Sequences, FiniteSets, TLC

VARIABLES platform, opts, pc, linkTxt, libs, err, arInput, linkCmd,
          tmpFiles, exported, bundle, output, toolFailed, exitStatus, trace

vars == <<platform, opts, pc, linkTxt, libs, err, arInput, linkCmd,
          tmpFiles, exported, bundle, output, toolFailed, exitStatus, trace>>

\* platform   : sys.platform, "linux" or "macos"
\* opts       : the parsed options that select the branch of main
\* pc         : the statement of main that runs next
\* linkTxt    : the tokens of CMakeFiles/dummy.dir/link.txt, <<>> if absent
\* libs, err  : the Libs get_libs returned, the message of a raised exception
\* arInput    : the archives handed to ar / libtool
\* linkCmd    : the command line of the shared-library link
\* tmpFiles   : the working root /tmp/llvm-swift (install tree, built libs)
\* exported   : the tree tmp/exported
\* bundle     : the published bundle DIR of --update-*, outside the working root
\* output     : the archives at opts.output
\* toolFailed : some external tool has exited non-zero
\* exitStatus : the exit status of the process
\* trace      : the statements of main executed so far

\* Python's None where a string is expected
None == <<"None">>
\* no Libs value (nothing returned by get_libs)
NoLibs == [none |-> TRUE]

-----------------------------------------------------------------------------
(* Bounds *)

\* longest link command (tokens after "dummy") the probe build may emit
MaxLen == 3

-----------------------------------------------------------------------------
(* String constants of the program *)

DEPLIST == <<"LLVMSupport", "swiftFrontendTool">>

DotA == <<".","a">>
DotSo == <<".","s","o">>
DotTbd == <<".","t","b","d">>
DotDylib == <<".","d","y","l","i","b">>
DashSmallL == <<"-","l">>
DashBigL == <<"-","L">>
DashWl == <<"-","W","l",",">>
Dummy == <<"d","u","m","m","y">>
ErrPrefix == <<"c","a","n","n","o","t"," ","u","n","d","e","r","s","t","a","n","d"," ","l","i","n","k",".","t","x","t",":"," ">>
WholeArchive == <<"-","W","l",",","-","-","w","h","o","l","e","-","a","r","c","h","i","v","e">>
NoWholeArchive == <<"-","W","l",",","-","-","n","o","-","w","h","o","l","e","-","a","r","c","h","i","v","e">>
AllLoad == <<"-","W","l",",","-","a","l","l","_","l","o","a","d">>
LibCxx == <<"-","l","c","+","+">>
Shared == <<"-","s","h","a","r","e","d">>
Clang == <<"c","l","a","n","g">>
SharedLibSo == <<"l","i","b","s","w","i","f","t","A","n","d","L","l","v","m","S","u","p","p","o","r","t","R","e","a","l",".","s","o">>
SharedLibDylib == <<"l","i","b","s","w","i","f","t","A","n","d","L","l","v","m","S","u","p","p","o","r","t","R","e","a","l",".","d","y","l","i","b">>

\* the directory configure_dummy_project returns (tmp / "build")
Configured == <<"/","t","m","p","/","l","l","v","m","-","s","w","i","f","t","/","b","u","i","l","d">>
\* the directory a builder writes into (tmp, or the DIR of --update-*)
TgtDir == <<"/","t","g","t","/">>

-----------------------------------------------------------------------------
(* Link commands the probe build may emit *)

TokXA == <<"x",".","a">>
TokYA == <<"y",".","a">>
TokZA == <<"/","z",".","a">>
TokLibzSo == <<"l","i","b","z",".","s","o">>
TokFooDylib == <<"f","o","o",".","d","y","l","i","b">>
TokLibsTbd == <<"d","/","l","i","b","s",".","t","b","d">>
TokLm == <<"-","l","m">>
TokLd == <<"-","L","/","d">>
TokWlr == <<"-","W","l",",","-","r">>
TokBadO == <<"b","a","d",".","o">>

TokenPool == {TokXA, TokYA, TokZA, TokLibzSo, TokFooDylib, TokLibsTbd,
              TokLm, TokLd, TokWlr, TokBadO}

RECURSIVE SeqsUpTo(_, _)
SeqsUpTo(S, n) ==
    IF n = 0 THEN {<<>>}
    ELSE LET shorter == SeqsUpTo(S, n - 1)
         IN shorter \cup {Append(s, x) : s \in {t \in shorter : Len(t) = n - 1}, x \in S}

LinkCommands == SeqsUpTo(TokenPool, MaxLen)

\* what precedes the libraries in link.txt: compiler, object, -o dummy
LinkTxtPrefix == << <<"c","+","+">>, <<"e","m","p","t","y",".","o">>, <<"-","o">>, Dummy >>

-----------------------------------------------------------------------------
(* str methods and pathlib, as the code uses them *)

endswith(l, suf) ==
    /\ Len(l) >= Len(suf)
    /\ SubSeq(l, Len(l) - Len(suf) + 1, Len(l)) = suf

startswith(l, pre) ==
    /\ Len(l) >= Len(pre)
    /\ SubSeq(l, 1, Len(pre)) = pre

\* l[n:]
SliceFrom(l, n) == SubSeq(l, n + 1, Len(l))

\* position of the last occurrence of c in l, 0 if none
LastIndex(l, c) ==
    LET hits == {i \in 1..Len(l) : l[i] = c}
    IN IF hits = {} THEN 0 ELSE CHOOSE i \in hits : \A j \in hits : j <= i

\* pathlib.Path(l).name : the final path component
PathName(l) == SliceFrom(l, LastIndex(l, "/"))

\* pathlib.Path(l).stem : the final component without its last suffix; a
\* leading or trailing dot does not start a suffix
PathStem(l) ==
    LET name == PathName(l)
        dot == LastIndex(name, ".")
    IN IF dot > 1 /\ dot < Len(name) THEN SubSeq(name, 1, dot - 1) ELSE name

\* str((configured / l).resolve()) : an absolute l replaces configured, a
\* relative one is joined to it (the tokens hold no "." / ".." components)
ResolveIn(configured, l) ==
    IF startswith(l, <<"/">>) THEN l ELSE configured \o <<"/">> \o l

\* libs.index('dummy')
IndexOf(s, x) ==
    LET hits == {i \in 1..Len(s) : s[i] = x}
    IN IF hits = {} THEN 0 ELSE CHOOSE i \in hits : \A j \in hits : i <= j

-----------------------------------------------------------------------------
(* get_libs *)

\* Libs([], [], [])
EmptyLibs == [archive |-> <<>>, static |-> <<>>, shared |-> <<>>]

\* ClassifyToken without the final raise: an unknown token is skipped
ClassifyTokenSkipUnknown(r, l) ==
    IF endswith(l, DotA)
    THEN [r EXCEPT !.ret.static = Append(@, ResolveIn(Configured, l))]
    ELSE IF endswith(l, DotSo) \/ endswith(l, DotTbd) \/ endswith(l, DotDylib)
    THEN [r EXCEPT !.ret.shared = Append(@, DashSmallL \o SliceFrom(PathStem(l), 3))]
    ELSE IF startswith(l, DashSmallL)
    THEN [r EXCEPT !.ret.shared = Append(@, l)]
    ELSE r

\* one iteration of the for loop over a token l; r carries the Libs under
\* construction and the pending exception (None while none was raised)
ClassifyToken(r, l) ==
    IF endswith(l, DotA)
    THEN [r EXCEPT !.ret.static = Append(@, ResolveIn(Configured, l))]
    ELSE IF endswith(l, DotSo) \/ endswith(l, DotTbd) \/ endswith(l, DotDylib)
    THEN [r EXCEPT !.ret.shared = Append(@, DashSmallL \o SliceFrom(PathStem(l), 3))]
    ELSE IF startswith(l, DashSmallL)
    THEN [r EXCEPT !.ret.shared = Append(@, l)]
    ELSE [r EXCEPT !.raised = ErrPrefix \o l]

RECURSIVE ClassifyLoop(_, _, _)
ClassifyLoop(r, tokens, i) ==
    IF i > Len(tokens) \/ r.raised # None THEN r
    ELSE ClassifyLoop(ClassifyToken(r, tokens[i]), tokens, i + 1)

Min(a, b) == IF a <= b THEN a ELSE b

\* MoveDirectDeps without the second assignment: static keeps the direct ones
MoveDirectDepsKeepStatic(ret) ==
    LET k == Min(Len(DEPLIST), Len(ret.static))
    IN [ret EXCEPT !.archive = SubSeq(ret.static, 1, k)]

\* ret.archive[:] = ret.static[:len(DEPLIST)]; ret.static[:len(DEPLIST)] = []
MoveDirectDeps(ret) ==
    LET k == Min(Len(DEPLIST), Len(ret.static))
    IN [ret EXCEPT !.archive = SubSeq(ret.static, 1, k),
                   !.static = SubSeq(ret.static, k + 1, Len(ret.static))]

\* libs[libs.index('dummy')+1:]
AfterDummy(text) == SliceFrom(text, IndexOf(text, Dummy))

\* list.index raises ValueError when 'dummy' is absent (also an empty file)
NotInList == <<"n","o","t"," ","i","n"," ","l","i","s","t">>

\* get_libs on the text of link.txt: the returned Libs, or the ValueError
get_libs(text) ==
    IF IndexOf(text, Dummy) = 0 THEN [ret |-> NoLibs, raised |-> NotInList] ELSE
    LET r == ClassifyLoop([ret |-> EmptyLibs, raised |-> None], AfterDummy(text), 1)
    IN IF r.raised # None
       THEN [ret |-> NoLibs, raised |-> r.raised]
       ELSE [ret |-> MoveDirectDeps(r.ret), raised |-> None]

-----------------------------------------------------------------------------
(* The builders *)

\* StaticLibTarget naming the shared library's file
StaticLibTargetSharedName(dir) == [dir |-> dir, file |-> "shared"]

\* get_tgt(tgt, "lib<EXPORTED_LIB>Real.a") for a directory tgt
StaticLibTarget(dir) == [dir |-> dir, file |-> "static"]

\* get_tgt(tgt, "lib<EXPORTED_LIB>Real.<ext>") for a directory tgt
SharedLibTarget(dir) == [dir |-> dir, file |-> "shared"]

SharedLibName(plat) == IF plat = "linux" THEN SharedLibSo ELSE SharedLibDylib

\* the archives handed to "ar -M" (addlib lines) or to "libtool -static"
StaticLibInputs(l) == l.archive \o l.static

\* cmd of create_shared_lib
SharedLinkCmd(plat, l) ==
    <<Clang, Shared>>
    \o << IF plat = "linux" THEN WholeArchive ELSE AllLoad >>
    \o << <<"-","o">> \o TgtDir \o SharedLibName(plat) >>
    \o l.archive
    \o << IF plat = "linux" THEN NoWholeArchive ELSE LibCxx >>
    \o l.static
    \o l.shared

-----------------------------------------------------------------------------
(* main *)

UpdateMode(o) == o.update_shared \/ o.update_static

\* the directory a builder is called with: DIR of --update-*, else tmp
BuilderDir(o) == IF UpdateMode(o) THEN "DIR" ELSE "tmp"

\* first statement after libs = get_libs(configured)
AfterGetLibs(o) ==
    IF UpdateMode(o)
    THEN IF o.update_shared THEN "create_shared_lib" ELSE "create_static_lib"
    ELSE "create_static_lib"

\* what follows create_shared_lib
AfterSharedLib(o) ==
    IF UpdateMode(o)
    THEN IF o.update_static THEN "create_static_lib" ELSE "done"
    ELSE "assemble"

\* AfterStaticLib falling through to the export steps in update mode
AfterStaticLibExports(o) == IF UpdateMode(o) THEN "assemble" ELSE "create_shared_lib"

\* what follows create_static_lib
AfterStaticLib(o) == IF UpdateMode(o) THEN "done" ELSE "create_shared_lib"

\* main returning: the interpreter exits with status zero
ExitFor(next) == IF next = "done" THEN "zero" ELSE "running"

\* an uncaught exception: traceback, non-zero exit status
Raise(msg) ==
    /\ pc' = "aborted"
    /\ err' = msg
    /\ exitStatus' = "nonzero"

Goto(next) ==
    /\ pc' = next
    /\ exitStatus' = ExitFor(next)
    /\ err' = err

Step == trace' = Append(trace, pc)

FileNotFound == <<"F","i","l","e","N","o","t","F","o","u","n","d">>
OSError == <<"O","S","E","r","r","o","r">>

Init ==
    /\ platform \in {"linux", "macos"}
    /\ opts \in [update_shared : BOOLEAN, update_static : BOOLEAN]
    /\ pc = "start"
    /\ linkTxt = <<>>
    /\ libs = NoLibs
    /\ err = None
    /\ arInput = <<>>
    /\ linkCmd = <<>>
    /\ tmpFiles = [install |-> FALSE, static |-> "absent", shared |-> "absent"]
    /\ exported = [static |-> "absent", shared |-> "absent", fragment |-> FALSE,
                   include |-> FALSE, sdk |-> FALSE]
    /\ bundle = [static |-> "old", shared |-> "old", fragment |-> "old",
                 include |-> "old", sdk |-> "old"]
    /\ output = [zip |-> "absent", tar |-> "absent"]
    /\ toolFailed = FALSE
    /\ exitStatus = "running"
    /\ trace = <<>>

\* rmtree(tmp) if present, mkdir(tmp)
Wipe ==
    /\ pc = "start"
    /\ Step
    /\ tmpFiles' = [install |-> FALSE, static |-> "absent", shared |-> "absent"]
    /\ exported' = [static |-> "absent", shared |-> "absent", fragment |-> FALSE,
                    include |-> FALSE, sdk |-> FALSE]
    /\ linkTxt' = <<>>
    /\ Goto(IF UpdateMode(opts) THEN "build" ELSE "install")
    /\ UNCHANGED <<platform, opts, libs, arInput, linkCmd, bundle, output, toolFailed>>

\* for project, deps in DEPS.items(): build(...), two runs of cmake --build
BuildDeps ==
    /\ pc = "build"
    /\ Step
    /\ \E failed1 \in BOOLEAN, failed2 \in BOOLEAN :
          toolFailed' = (toolFailed \/ failed1 \/ failed2)
    /\ Goto("configure")
    /\ UNCHANGED <<platform, opts, linkTxt, libs, arInput, linkCmd, tmpFiles,
                   exported, bundle, output>>

\* install(tmp, opts): two runs of cmake --build . -- install with DESTDIR
Install ==
    /\ pc = "install"
    /\ Step
    /\ \E failed1 \in BOOLEAN, failed2 \in BOOLEAN, missing \in BOOLEAN :
          /\ missing => (failed1 \/ failed2)
          /\ toolFailed' = (toolFailed \/ failed1 \/ failed2)
          /\ tmpFiles' = [tmpFiles EXCEPT !.install = ~missing]
    /\ Goto("copy_syntax")
    /\ UNCHANGED <<platform, opts, linkTxt, libs, arInput, linkCmd,
                   exported, bundle, output>>

\* copy the Syntax headers of the swift build tree into the install tree
CopySyntaxHeaders ==
    /\ pc = "copy_syntax"
    /\ Step
    /\ \E srcMissing \in BOOLEAN :
          IF srcMissing \/ ~tmpFiles.install
          THEN Raise(FileNotFound)
          ELSE Goto("configure")
    /\ UNCHANGED <<platform, opts, linkTxt, libs, arInput, linkCmd, tmpFiles,
                   exported, bundle, output, toolFailed>>

\* configure_dummy_project: cmake generates link.txt only when it succeeds
ConfigureDummyProject ==
    /\ pc = "configure"
    /\ Step
    /\ \E failed \in BOOLEAN, c \in LinkCommands :
          /\ toolFailed' = (toolFailed \/ failed)
          /\ linkTxt' = IF failed THEN <<>> ELSE LinkTxtPrefix \o c
    /\ Goto("get_libs")
    /\ UNCHANGED <<platform, opts, libs, arInput, linkCmd, tmpFiles,
                   exported, bundle, output>>

\* libs = get_libs(configured)
GetLibs ==
    /\ pc = "get_libs"
    /\ Step
    /\ LET r == get_libs(linkTxt)
       IN IF r.raised # None
          THEN Raise(r.raised) /\ libs' = libs
          ELSE Goto(AfterGetLibs(opts)) /\ libs' = r.ret
    /\ UNCHANGED <<platform, opts, linkTxt, arInput, linkCmd, tmpFiles,
                   exported, bundle, output, toolFailed>>

\* the library file a tool leaves behind: complete when it succeeds,
\* otherwise untouched or partially written
ToolOutput(failed, before) == IF failed THEN {before, "partial"} ELSE {"new"}

\* create_static_lib(tgt, libs): ar -M on linux, libtool -static elsewhere
CreateStaticLib ==
    /\ pc = "create_static_lib"
    /\ Step
    /\ arInput' = StaticLibInputs(libs)
    /\ LET tgt == StaticLibTarget(BuilderDir(opts))
       IN \E failed \in BOOLEAN :
            /\ toolFailed' = (toolFailed \/ failed)
            /\ IF tgt.dir = "DIR"
               THEN /\ \E v \in ToolOutput(failed, bundle[tgt.file]) :
                          bundle' = [bundle EXCEPT ![tgt.file] = v]
                    /\ tmpFiles' = tmpFiles
               ELSE /\ \E v \in ToolOutput(failed, tmpFiles[tgt.file]) :
                          tmpFiles' = [tmpFiles EXCEPT ![tgt.file] = v]
                    /\ bundle' = bundle
    /\ Goto(AfterStaticLib(opts))
    /\ UNCHANGED <<platform, opts, linkTxt, libs, linkCmd, exported, output>>

\* create_shared_lib(tgt, libs): the link, then install_name_tool off linux
CreateSharedLib ==
    /\ pc = "create_shared_lib"
    /\ Step
    /\ linkCmd' = SharedLinkCmd(platform, libs)
    /\ LET tgt == SharedLibTarget(BuilderDir(opts))
       IN \E failed \in BOOLEAN, idFailed \in BOOLEAN :
            /\ (platform = "linux") => ~idFailed
            /\ toolFailed' = (toolFailed \/ failed \/ idFailed)
            /\ IF tgt.dir = "DIR"
               THEN /\ \E v \in ToolOutput(failed, bundle[tgt.file]) :
                          bundle' = [bundle EXCEPT ![tgt.file] = v]
                    /\ tmpFiles' = tmpFiles
               ELSE /\ \E v \in ToolOutput(failed, tmpFiles[tgt.file]) :
                          tmpFiles' = [tmpFiles EXCEPT ![tgt.file] = v]
                    /\ bundle' = bundle
    /\ Goto(AfterSharedLib(opts))
    /\ UNCHANGED <<platform, opts, linkTxt, libs, arInput, exported, output>>

\* create_export_dir after the builders: mkdir exported, rename the two
\* libraries into it, write swift_llvm_prebuilt.cmake
AssembleExportDir ==
    /\ pc = "assemble"
    /\ Step
    /\ IF tmpFiles.static = "absent" \/ tmpFiles.shared = "absent"
       THEN /\ Raise(FileNotFound)
            /\ UNCHANGED <<tmpFiles, exported>>
       ELSE /\ exported' = [exported EXCEPT !.static = tmpFiles.static,
                                            !.shared = tmpFiles.shared,
                                            !.fragment = TRUE]
            /\ tmpFiles' = [tmpFiles EXCEPT !.static = "absent", !.shared = "absent"]
            /\ Goto("copy_includes")
    /\ UNCHANGED <<platform, opts, linkTxt, libs, arInput, linkCmd, bundle,
                   output, toolFailed>>

\* copy_includes(installed, tgt)
CopyIncludes ==
    /\ pc = "copy_includes"
    /\ Step
    /\ exported' = [exported EXCEPT !.include = tmpFiles.install]
    /\ Goto("create_sdk")
    /\ UNCHANGED <<platform, opts, linkTxt, libs, arInput, linkCmd, tmpFiles,
                   bundle, output, toolFailed>>

\* create_sdk(installed, tgt / "sdk"): copytree raises on a missing source
CreateSdk ==
    /\ pc = "create_sdk"
    /\ Step
    /\ \E shimsMissing \in BOOLEAN :
          IF shimsMissing
          THEN Raise(FileNotFound) /\ exported' = exported
          ELSE Goto("zip_dir") /\ exported' = [exported EXCEPT !.sdk = TRUE]
    /\ UNCHANGED <<platform, opts, linkTxt, libs, arInput, linkCmd, tmpFiles,
                   bundle, output, toolFailed>>

\* what shutil.make_archive leaves at the output location
ArchiveOutcomes == {"written", "absent", "partial"}

\* zip_dir(exported, opts.output)
ZipDir ==
    /\ pc = "zip_dir"
    /\ Step
    /\ \E v \in ArchiveOutcomes :
          /\ output' = [output EXCEPT !.zip = v]
          /\ IF v = "written" THEN Goto("tar_dir") ELSE Raise(OSError)
    /\ UNCHANGED <<platform, opts, linkTxt, libs, arInput, linkCmd, tmpFiles,
                   exported, bundle, toolFailed>>

\* tar_dir(exported, opts.output)
TarDir ==
    /\ pc = "tar_dir"
    /\ Step
    /\ \E v \in ArchiveOutcomes :
          /\ output' = [output EXCEPT !.tar = v]
          /\ IF v = "written" THEN Goto("done") ELSE Raise(OSError)
    /\ UNCHANGED <<platform, opts, linkTxt, libs, arInput, linkCmd, tmpFiles,
                   exported, bundle, toolFailed>>

Next ==
    \/ Wipe
    \/ BuildDeps
    \/ Install
    \/ CopySyntaxHeaders
    \/ ConfigureDummyProject
    \/ GetLibs
    \/ CreateStaticLib
    \/ CreateSharedLib
    \/ AssembleExportDir
    \/ CopyIncludes
    \/ CreateSdk
    \/ ZipDir
    \/ TarDir

Spec == Init /\ [][Next]_vars

-----------------------------------------------------------------------------
(* Vocabulary of the properties *)

Range(s) == {s[i] : i \in 1..Len(s)}

IsPrefix(s, t) == Len(s) <= Len(t) /\ SubSeq(t, 1, Len(s)) = s

IsSuffixOf(s, t) == endswith(t, s)

\* get_libs has run on a captured link command (link.txt names dummy)
Classified == "get_libs" \in Range(trace) /\ IndexOf(linkTxt, Dummy) > 0

\* get_libs returned a Libs to main
Returned == Classified /\ libs # NoLibs

\* the tokens after the probe target name
Cmd == AfterDummy(linkTxt)

IsStaticTok(t) == endswith(t, DotA)

IsSharedFileTok(t) ==
    ~IsStaticTok(t) /\ (endswith(t, DotSo) \/ endswith(t, DotTbd) \/ endswith(t, DotDylib))

IsShortLibFlag(t) == ~IsStaticTok(t) /\ ~IsSharedFileTok(t) /\ startswith(t, DashSmallL)

IsLinkerFlag(t) ==
    /\ ~IsStaticTok(t) /\ ~IsSharedFileTok(t)
    /\ (startswith(t, DashBigL) \/ startswith(t, DashWl))

IsSharedTok(t) == IsSharedFileTok(t) \/ IsShortLibFlag(t)

\* the rules of the specification: extensions and the three flag prefixes
SpecRecognized(t) == IsStaticTok(t) \/ IsSharedTok(t) \/ IsLinkerFlag(t)

\* the rules get_libs tests for
Classifiable(t) == IsStaticTok(t) \/ IsSharedTok(t)

\* the flags category of a classified set, empty when the set has none
FlagsOf(l) == IF "flags" \in DOMAIN l THEN l.flags ELSE <<>>

StaticToks == SelectSeq(Cmd, IsStaticTok)

SharedToks == SelectSeq(Cmd, IsSharedTok)

\* the first token of the command that matches none of get_libs' rules
FirstUnclassifiable ==
    Cmd[CHOOSE i \in 1..Len(Cmd) :
            /\ ~Classifiable(Cmd[i])
            /\ \A j \in 1..(i - 1) : Classifiable(Cmd[j])]

-----------------------------------------------------------------------------
(* Properties *)

\* C1: every link command made only of recognized tokens (static archive,
\* shared library file, -l, -L, -Wl,) is classified successfully and the
\* four categories together hold exactly as many entries as the command
\* has tokens: none dropped, none duplicated.
C1_PartitionsEveryToken ==
    (Classified /\ \A i \in 1..Len(Cmd) : SpecRecognized(Cmd[i]))
        => /\ libs # NoLibs
           /\ Len(libs.archive) + Len(libs.static) + Len(libs.shared)
                 + Len(FlagsOf(libs)) = Len(Cmd)

\* C2: classification preserves input order inside every category; the
\* first k = len(DEPLIST) static archives form archive, the later ones
\* static, so archive followed by static is the resolved static-archive
\* tokens in input order, and shared follows the shared tokens in order.
C2_OrderAndDirectDeps ==
    Returned =>
        /\ libs.archive \o libs.static
              = [i \in 1..Len(StaticToks) |-> ResolveIn(Configured, StaticToks[i])]
        /\ Len(libs.archive) = Min(Len(DEPLIST), Len(StaticToks))
        /\ Len(libs.shared) = Len(SharedToks)
        /\ \A j \in 1..Len(SharedToks) :
              IF IsShortLibFlag(SharedToks[j])
              THEN libs.shared[j] = SharedToks[j]
              ELSE /\ startswith(libs.shared[j], DashSmallL)
                   /\ IsSuffixOf(SliceFrom(libs.shared[j], 2), PathStem(SharedToks[j]))

C2_Witness ==
    /\ Returned
    /\ Len(libs.archive) = Len(DEPLIST)
    /\ Len(libs.static) >= 1
    /\ libs.archive[1] # libs.archive[2]
    /\ libs.static[1] \notin Range(libs.archive)

\* C3: when some token matches none of the rules get_libs tests for,
\* get_libs raises, the message is the fixed prefix followed by exactly the
\* first such token, main aborts with a non-zero status and no Libs value,
\* not even the partially filled one, reaches the caller.
C3_UnknownTokenFails ==
    (Classified /\ \E i \in 1..Len(Cmd) : ~Classifiable(Cmd[i]))
        => /\ pc = "aborted"
           /\ exitStatus = "nonzero"
           /\ libs = NoLibs
           /\ err = ErrPrefix \o FirstUnclassifiable

C3_Witness ==
    /\ Classified
    /\ Len(Cmd) >= 2
    /\ Classifiable(Cmd[1])
    /\ Cmd[Len(Cmd)] = TokBadO
    /\ err = ErrPrefix \o TokBadO
    /\ libs = NoLibs

\* C4: a token beginning with a link-flag prefix never makes classification
\* fail and is kept verbatim: -l tokens in shared, -L and -Wl, tokens in
\* flags.
C4_FlagPrefixesAccepted ==
    (Classified /\ \A i \in 1..Len(Cmd) : SpecRecognized(Cmd[i]))
        => /\ libs # NoLibs
           /\ \A i \in 1..Len(Cmd) :
                /\ IsShortLibFlag(Cmd[i]) => Cmd[i] \in Range(libs.shared)
                /\ IsLinkerFlag(Cmd[i]) => Cmd[i] \in Range(FlagsOf(libs))

\* the part of the link command strictly between the whole-archive brackets
InsideBracket ==
    SubSeq(linkCmd, IndexOf(linkCmd, WholeArchive) + 1,
                    IndexOf(linkCmd, NoWholeArchive) - 1)

\* C5: in the command create_shared_lib builds, every archive and static
\* entry is under whole-inclusion (inside the whole-archive bracket on
\* linux, -Wl,-all_load present elsewhere) and no shared flag is inside
\* the bracket.
C5_WholeInclusionOfAllArchives ==
    (linkCmd # <<>>) =>
        IF platform = "linux"
        THEN /\ IndexOf(linkCmd, WholeArchive) > 0
             /\ IndexOf(linkCmd, NoWholeArchive) > IndexOf(linkCmd, WholeArchive)
             /\ \A i \in 1..Len(linkCmd) :
                   IsStaticTok(linkCmd[i])
                      => /\ IndexOf(linkCmd, WholeArchive) < i
                         /\ i < IndexOf(linkCmd, NoWholeArchive)
             /\ \A s \in Range(libs.shared) : s \notin Range(InsideBracket)
        ELSE AllLoad \in Range(linkCmd)

\* C6: once an external tool has exited non-zero the run is aborted with a
\* non-zero exit status; no later step runs.
C6_ToolFailureAborts ==
    toolFailed => (pc = "aborted" /\ exitStatus = "nonzero")

\* every artifact the run was asked for is complete at the output location
EverythingPublished ==
    IF UpdateMode(opts)
    THEN /\ opts.update_shared => bundle.shared = "new"
         /\ opts.update_static => bundle.static = "new"
    ELSE output.zip = "written" /\ output.tar = "written"

\* the caller-visible output location is as it was before the run
NothingPublished ==
    /\ output.zip = "absent" /\ output.tar = "absent"
    /\ bundle.shared = "old" /\ bundle.static = "old"

\* C7: a run that has ended either published everything it was asked for
\* or left nothing at the caller-visible output location.
C7_NoPartialSuccess ==
    (pc \in {"done", "aborted"}) => (EverythingPublished \/ NothingPublished)

StaticOnly == opts.update_static /\ ~opts.update_shared

\* C8: a run with only --update-static leaves the shared library, the
\* build-description fragment, the header tree and the SDK tree of DIR as
\* they were and writes no compressed bundle; only the static archive of
\* DIR may change.  (DIR is a published bundle outside the working root.)
C8_UpdateStaticFrame ==
    StaticOnly =>
        /\ bundle.shared = "old"
        /\ bundle.fragment = "old"
        /\ bundle.include = "old"
        /\ bundle.sdk = "old"
        /\ output.zip = "absent"
        /\ output.tar = "absent"

C8_Witness ==
    StaticOnly /\ pc = "done" /\ bundle.static = "new" /\ bundle.shared = "old"

\* the stage of the pipeline a step of main belongs to
Stage(step, o) ==
    CASE step \in {"start", "build", "install", "copy_syntax", "configure"} -> "Configuring"
      [] step = "get_libs" -> "Classifying"
      [] step = "create_static_lib" ->
            IF UpdateMode(o) THEN "UpdatingOne" ELSE "BuildingStatic"
      [] step = "create_shared_lib" ->
            IF UpdateMode(o) THEN "UpdatingOne" ELSE "BuildingShared"
      [] step \in {"assemble", "copy_includes"} -> "ExportingHeaders"
      [] step = "create_sdk" -> "ExportingSDK"
      [] step \in {"zip_dir", "tar_dir"} -> "Finalizing"
      [] OTHER -> "Done"

RECURSIVE Collapse(_)
\* a sequence without its adjacent repetitions
Collapse(s) ==
    IF Len(s) <= 1 THEN s
    ELSE IF s[1] = s[2] THEN Collapse(Tail(s))
    ELSE <<s[1]>> \o Collapse(Tail(s))

\* the stages the run went through so far
StageTrace ==
    Collapse([i \in 1..Len(trace) |-> Stage(trace[i], opts)])
        \o (IF pc = "done" THEN <<"Done">> ELSE <<>>)

FullStages ==
    <<"Configuring", "Classifying", "BuildingStatic", "BuildingShared",
      "ExportingHeaders", "ExportingSDK", "Finalizing", "Done">>

UpdateStages == <<"Configuring", "Classifying", "UpdatingOne", "Done">>

Builders == {i \in 1..Len(trace) : trace[i] \in {"create_static_lib", "create_shared_lib"}}

NoStepRepeated == \A i, j \in 1..Len(trace) : trace[i] = trace[j] => i = j

ForwardOnly ==
    /\ NoStepRepeated
    /\ IsPrefix(StageTrace, IF UpdateMode(opts) THEN UpdateStages ELSE FullStages)

\* the steps main takes for the given options when nothing raises
PathFor(o) ==
    IF UpdateMode(o)
    THEN <<"start", "build", "configure", "get_libs">>
         \o (IF o.update_shared THEN <<"create_shared_lib">> ELSE <<>>)
         \o (IF o.update_static THEN <<"create_static_lib">> ELSE <<>>)
    ELSE <<"start", "install", "copy_syntax", "configure", "get_libs",
           "create_static_lib", "create_shared_lib", "assemble",
           "copy_includes", "create_sdk", "zip_dir", "tar_dir">>

ShortName(t) ==
    LET stem == PathStem(t)
    IN IF startswith(stem, <<"l","i","b">>) THEN SliceFrom(stem, 3) ELSE stem

\* C10: every shared-library file token appears in shared as -l<name>,
\* <name> being the file name without directory, extension and leading
\* lib; a name that does not start with lib keeps all its characters.
C10_ShortFormKeepsName ==
    Returned =>
        /\ Len(libs.shared) = Len(SharedToks)
        /\ \A j \in 1..Len(SharedToks) :
              IsSharedFileTok(SharedToks[j])
                 => libs.shared[j] = DashSmallL \o ShortName(SharedToks[j])

====
